---------------------------- MODULE Spec2Model ----------------------------
(***************************************************************************)
(* Model of the commute-time enrichment script                             *)
(* calculate_routes_to_capitals.py: one run of main() over the towns table *)
(* of hungarian_towns.db, the county reference county_neighbors.json and a *)
(* nondeterministic Routes API.                                            *)
(*                                                                         *)
(* Representation.                                                         *)
(*  - Python None / SQL NULL / JSON null is the empty tuple <<>>, a        *)
(*    present value v is <<v>>.                                            *)
(*  - A Python dict that is iterated (insertion ordered) is a sequence of  *)
(*    <<key, value>> pairs; a dict that is only looked up is a function.   *)
(*  - A county string is the sequence of its space-separated words, so     *)
(*    "Fejer varmegye" is <<"Fejer", "varmegye">>.  Names are written      *)
(*    without diacritics.                                                  *)
(*  - A coordinate is a whole number of hundredths of a degree, so 47.0    *)
(*    is 4700 and the mis-scaled 4712.0 is 471200.                         *)
(***************************************************************************)
EXTENDS Integers, Sequences, FiniteSets, TLC

None == <<>>
Some(v) == <<v>>

\* ------------------------------------------------------------------------
\* Bounds of the model
\* ------------------------------------------------------------------------
\* largest number of ordinary (non-capital) town rows in the initial table
MaxTowns == 2
\* number of anonymous rows that may be missing in front of the slice start
MaxLead == 3

\* ------------------------------------------------------------------------
\* Program constants
\* ------------------------------------------------------------------------
\* all_towns[500:1000]
SliceStart == 500
SliceEnd == 1000
\* the fixed name of the primary capital
Budapest == "Budapest"
\* the administrative suffix stripped from county strings
Suffix == "varmegye"

\* ------------------------------------------------------------------------
\* Python dict (insertion ordered) as a sequence of <<key, value>> pairs
\* ------------------------------------------------------------------------
DictHas(d, key) == \E k \in 1..Len(d) : d[k][1] = key

DictGet(d, key, default) ==
    IF DictHas(d, key)
    THEN d[CHOOSE k \in 1..Len(d) : d[k][1] = key][2]
    ELSE default

DictSetAppend(d, key, val) == Append(d, <<key, val>>)

\* d[key] = val : an existing key keeps its position, a new key goes last
DictSet(d, key, val) ==
    IF DictHas(d, key)
    THEN [k \in 1..Len(d) |-> IF d[k][1] = key THEN <<key, val>> ELSE d[k]]
    ELSE Append(d, <<key, val>>)

DictKeys(d) == [k \in 1..Len(d) |-> d[k][1]]

DictValues(d) == [k \in 1..Len(d) |-> d[k][2]]

\* ------------------------------------------------------------------------
\* County strings
\* ------------------------------------------------------------------------
Fejer == <<"Fejer">>
Pest == <<"Pest">>
CsCs == <<"Csongrad-Csanad">>
Csongrad == <<"Csongrad">>
Tolna == <<"Tolna">>
BpCounty == <<"Budapest">>

WithSuffix(c) == c \o <<Suffix>>

\* str.replace(' varmegye', '') on a county string: every occurrence of a
\* space followed by the suffix word is deleted, i.e. every word "varmegye"
\* other than the first word of the string.  (No word of the model has the
\* suffix as a proper prefix.)
RECURSIVE StripFrom(_, _)
StripFrom(s, k) ==
    IF k > Len(s) THEN <<>>
    ELSE IF k > 1 /\ s[k] = Suffix THEN StripFrom(s, k + 1)
    ELSE <<s[k]>> \o StripFrom(s, k + 1)

NormalizeCountyKeepSuffix(county) == county

NormalizeCountyWithAlias(county) ==
    IF StripFrom(county, 1) = Csongrad THEN CsCs ELSE StripFrom(county, 1)

NormalizeCounty(county) == StripFrom(county, 1)


\* ------------------------------------------------------------------------
\* The inputs of a run: county reference files and towns tables
\* ------------------------------------------------------------------------
\* A realistic reference: Pest's capital is the primary capital.
FileA ==
    (Pest :> [capital |-> Some("Budapest"), neighbors |-> <<>>]) @@
    (Fejer :> [capital |-> Some("Szekesfehervar"), neighbors |-> <<Pest>>]) @@
    (CsCs :> [capital |-> Some("Szeged"), neighbors |-> <<Fejer>>])

\* No county names Budapest as its capital; a neighbour that is not a key,
\* a repeated neighbour, an entry without "neighbors", a null capital.
FileB ==
    (Fejer :> [capital |-> Some("Szekesfehervar"),
               neighbors |-> <<Tolna, CsCs, CsCs>>]) @@
    (CsCs :> [capital |-> Some("Szeged")]) @@
    (Pest :> [capital |-> None, neighbors |-> <<CsCs>>])

\* An entry without "capital".
FileC ==
    (Fejer :> [capital |-> Some("Szekesfehervar"), neighbors |-> <<>>]) @@
    (Pest :> [neighbors |-> <<Fejer>>])

CountyFiles == {FileA, FileB, FileC}

\* a row as scrape_towns.py creates it (columns of setup_database; the
\* columns type, kisterseg, jaras, zip_code, mayor are represented by
\* population)
BaseRow(name, county, population, lat, lon) ==
    [name |-> name, county |-> county, population |-> Some(population),
     latitude |-> lat, longitude |-> lon]

CommuteColumns ==
    {"commute_budapest_mins", "commute_nearest_capital_mins",
     "nearest_capital_name"}

HasCommuteColumns(row) == CommuteColumns \subseteq DOMAIN row

WithCommute(row, b, m, n) ==
    [c \in DOMAIN row \cup CommuteColumns |->
        IF c = "commute_budapest_mins" THEN b
        ELSE IF c = "commute_nearest_capital_mins" THEN m
        ELSE IF c = "nearest_capital_name" THEN n
        ELSE row[c]]

\* the rows of the capitals; Szeged carries the county's legacy name
RowBudapest == BaseRow("Budapest", BpCounty, 1700, Some(4700), Some(1900))
RowSzfv == BaseRow("Szekesfehervar", Fejer, 95, Some(4700), Some(1800))
RowSzeged == BaseRow("Szeged", Csongrad, 160, Some(4600), Some(2000))
RowSzegedNoCoords == BaseRow("Szeged", Csongrad, 160, None, Some(2000))

\* ordinary towns
RowAba == BaseRow("Aba", WithSuffix(Fejer), 4, Some(4700), Some(1800))
RowAlgyo == BaseRow("Algyo", WithSuffix(CsCs), 5, Some(4600), Some(2000))
RowBudaors == BaseRow("Budaors", WithSuffix(Pest), 28, Some(4700), Some(1800))

OrdinaryRows == <<RowAba, RowAlgyo, RowBudaors>>

\* the subsequences of s with at most n elements
RECURSIVE SubSeqsUpTo(_, _)
SubSeqsUpTo(s, n) ==
    IF Len(s) = 0 \/ n = 0 THEN {<<>>}
    ELSE SubSeqsUpTo(Tail(s), n) \cup
         {<<Head(s)>> \o t : t \in SubSeqsUpTo(Tail(s), n - 1)}

CapitalRowChoices ==
    {b \o <<RowSzfv>> \o z :
        b \in {<<>>, <<RowBudapest>>},
        z \in {<<>>, <<RowSzeged>>, <<RowSzegedNoCoords>>}}

BaseTables ==
    {c \o o : c \in CapitalRowChoices, o \in SubSeqsUpTo(OrdinaryRows, MaxTowns)}

\* values left in the three commute columns by an earlier run
PriorCommute(row) ==
    IF row.name = "Aba"
    THEN WithCommute(row, Some(55), Some(20), Some("Szekesfehervar"))
    ELSE IF row.name = "Budaors"
    THEN WithCommute(row, Some(15), Some(40), Some("Szekesfehervar"))
    ELSE IF row.name = "Szekesfehervar"
    THEN WithCommute(row, Some(60), Some(0), Some("Szekesfehervar"))
    ELSE WithCommute(row, None, None, None)

\* a table fresh from the scraper, or one an earlier run has enriched
InitialTables ==
    BaseTables \cup
    {[k \in 1..Len(t) |-> PriorCommute(t[k])] : t \in BaseTables}

\* number of rows with coordinates in front of the modelled rows; they are
\* towns that are no capital, and all lie before the slice start
Leads == {SliceStart - MaxLead, SliceStart}


\* ------------------------------------------------------------------------
\* Database functions
\* ------------------------------------------------------------------------
\* ALTER TABLE towns ADD COLUMN ... three times; "duplicate column name" is
\* swallowed, so a table that has the columns is left as it is
add_commute_columns(table) ==
    [k \in 1..Len(table) |->
        IF HasCommuteColumns(table[k]) THEN table[k]
        ELSE WithCommute(table[k], None, None, None)]

HasCoords(row) == row.latitude # None /\ row.longitude # None

TownDict(row) ==
    [name |-> row.name, county |-> row.county,
     latitude |-> row.latitude, longitude |-> row.longitude]

get_all_towns_data_unfiltered(table) ==
    [k \in 1..Len(table) |-> TownDict(table[k])]

get_all_towns_data_twice(table) ==
    LET kept == SelectSeq(table, HasCoords)
    IN  [k \in 1..(2 * Len(kept)) |-> TownDict(kept[((k - 1) % Len(kept)) + 1])]

\* SELECT name, county, latitude, longitude FROM towns
\*   WHERE latitude IS NOT NULL AND longitude IS NOT NULL
get_all_towns_data(table) ==
    LET kept == SelectSeq(table, HasCoords)
    IN  [k \in 1..Len(kept) |-> TownDict(kept[k])]

\* adds the new minutes to the stored ones
AddedTo(old, new) ==
    IF old # None /\ new # None THEN Some(old[1] + new[1]) ELSE new

update_town_in_db_adding(table, town_name, b, m, n) ==
    [k \in 1..Len(table) |->
        IF table[k].name = town_name
        THEN WithCommute(table[k],
                 AddedTo(table[k].commute_budapest_mins, b),
                 AddedTo(table[k].commute_nearest_capital_mins, m), n)
        ELSE table[k]]

update_town_in_db_all_rows(table, town_name, b, m, n) ==
    [k \in 1..Len(table) |-> WithCommute(table[k], b, m, n)]

\* UPDATE towns SET the three commute columns WHERE name = town_name
update_town_in_db(table, town_name, b, m, n) ==
    [k \in 1..Len(table) |->
        IF table[k].name = town_name
        THEN WithCommute(table[k], b, m, n)
        ELSE table[k]]

\* ------------------------------------------------------------------------
\* Data preparation
\* ------------------------------------------------------------------------
Coords(town) == [latitude |-> town.latitude, longitude |-> town.longitude]

\* data['capital'] raises KeyError for an entry without the key
CapitalKeyMissing(cd) == \E c \in DOMAIN cd : "capital" \notin DOMAIN cd[c]

capital_names_of(cd) == {cd[c].capital : c \in DOMAIN cd}

RECURSIVE CoordsScan(_, _, _, _)
CoordsScan(towns_list, names, k, acc) ==
    IF k > Len(towns_list) THEN acc
    ELSE CoordsScan(towns_list, names, k + 1,
            IF Some(towns_list[k].name) \in names
            THEN DictSet(acc, towns_list[k].name, Coords(towns_list[k]))
            ELSE acc)

get_capital_cities_coords(towns_list, cd) ==
    CoordsScan(towns_list, capital_names_of(cd), 1, <<>>)

\* dict.get with a default, on the county reference and on an entry
CountyEntry(cd, county_name) ==
    IF county_name \in DOMAIN cd THEN cd[county_name] ELSE <<>>

EntryGet(entry, field, default) ==
    IF field \in DOMAIN entry THEN entry[field] ELSE default

relevant_county_names_all(cd, county) ==
    <<county>> \o SelectSeq(<<Pest, Fejer, CsCs>>, LAMBDA c : c \in DOMAIN cd)

\* [town_county] + county_data[town_county].get('neighbors', [])
relevant_county_names_of(cd, county) ==
    <<county>> \o EntryGet(cd[county], "neighbors", <<>>)

\* the loop over relevant_county_names, lines 173-176
RECURSIVE CandidateLoopStopAtMissing(_, _, _, _, _)
CandidateLoopStopAtMissing(cd, coords_map, names, k, acc) ==
    IF k > Len(names) THEN acc
    ELSE LET capital_name == EntryGet(CountyEntry(cd, names[k]), "capital", None)
         IN  IF capital_name # None /\ DictHas(coords_map, capital_name[1])
             THEN CandidateLoopStopAtMissing(cd, coords_map, names, k + 1,
                    DictSet(acc, capital_name[1],
                            DictGet(coords_map, capital_name[1], None)))
             ELSE acc

RECURSIVE CandidateLoop(_, _, _, _, _)
CandidateLoop(cd, coords_map, names, k, acc) ==
    IF k > Len(names) THEN acc
    ELSE LET capital_name == EntryGet(CountyEntry(cd, names[k]), "capital", None)
         IN  CandidateLoop(cd, coords_map, names, k + 1,
                IF capital_name # None /\ DictHas(coords_map, capital_name[1])
                THEN DictSet(acc, capital_name[1],
                             DictGet(coords_map, capital_name[1], None))
                ELSE acc)

\* "Always add Budapest", lines 179-180
AddBudapestTwice(dests, coords_map) ==
    IF DictHas(coords_map, Budapest)
    THEN DictSetAppend(dests, Budapest, DictGet(coords_map, Budapest, None))
    ELSE dests

AddBudapest(dests, coords_map) ==
    IF DictHas(coords_map, Budapest)
    THEN DictSet(dests, Budapest, DictGet(coords_map, Budapest, None))
    ELSE dests

\* destinations_to_check of lines 170-180
BuildDestinations(cd, coords_map, county) ==
    AddBudapest(
        CandidateLoop(cd, coords_map, relevant_county_names_of(cd, county), 1, <<>>),
        coords_map)


\* ------------------------------------------------------------------------
\* The Routes API and calculate_commute_times
\* ------------------------------------------------------------------------
\* durations the API may report, in seconds: 0.5 and 1.5 minutes
DurationSeconds == {30, 90}
\* google.rpc.Code OK, and the codes of a failed element (NOT_FOUND)
StatusOk == 0
FailureCodes == {5}

\* the elements the API may stream for a request with n destinations
Elements(n) ==
    {[destination_index |-> d, code |-> StatusOk, seconds |-> s] :
        d \in 0..(n - 1), s \in DurationSeconds}
    \cup
    {[destination_index |-> d, code |-> c, seconds |-> 0] :
        d \in 0..(n - 1), c \in FailureCodes}

\* a response stream: at most one element per destination, in any order
Responses(n) ==
    {r \in UNION {[1..k -> Elements(n)] : k \in 0..n} :
        \A a, b \in 1..Len(r) :
            a # b => r[a].destination_index # r[b].destination_index}

RoundHalfUp(num, den) == (2 * num + den) \div (2 * den)

\* Python 3 round(num / den) for num >= 0, den > 0: half rounds to even
Round(num, den) ==
    LET q == num \div den
        r == num % den
    IN  IF 2 * r < den THEN q
        ELSE IF 2 * r > den THEN q + 1
        ELSE IF q % 2 = 0 THEN q ELSE q + 1

\* the name the element is attributed to, destination_names[destination_index]
ElementNameByArrival(names, element, pos) == names[pos]

ElementName(names, element, pos) == names[element.destination_index + 1]

ElementValueIgnoreStatus(element) ==
    IF element.code = StatusOk THEN Some(Round(element.seconds, 60))
    ELSE Some(0)

\* the value stored for the element, lines 126-134
ElementValue(element) ==
    IF element.code = StatusOk THEN Some(Round(element.seconds, 60)) ELSE None

\* the loop over response_stream, lines 123-135
RECURSIVE StreamLoop(_, _, _, _)
StreamLoop(names, stream, k, results) ==
    IF k > Len(stream) THEN results
    ELSE StreamLoop(names, stream, k + 1,
            DictSet(results, ElementName(names, stream[k], k),
                    ElementValue(stream[k])))

\* the value returned when compute_route_matrix raises, line 121
ApiErrorResultEmptyDict == Some(<<>>)

ApiErrorResult == None

\* the value returned for a response stream read to its end
CommuteTimes(destinations, stream) ==
    Some(StreamLoop(DictKeys(destinations), stream, 1, <<>>))

\* ------------------------------------------------------------------------
\* Reduction of the results, lines 191-200
\* ------------------------------------------------------------------------
budapest_mins_of(results) == DictGet(results, Budapest, None)

IsCapitalCommuteAny(pair) == pair[2] # None

IsCapitalCommute(pair) == pair[1] # Budapest /\ pair[2] # None

capital_commutes_of(results) == SelectSeq(results, IsCapitalCommute)

\* min(d, key=d.get) on a non-empty dict: the first key, in iteration
\* order, whose value no other key's value is below
RECURSIVE MaxKeyFrom(_, _, _)
MaxKeyFrom(d, k, best) ==
    IF k > Len(d) THEN d[best][1]
    ELSE MaxKeyFrom(d, k + 1, IF d[k][2][1] > d[best][2][1] THEN k ELSE best)

PyMinKeyMax(d) == MaxKeyFrom(d, 2, 1)

RECURSIVE LastMinKeyFrom(_, _, _)
LastMinKeyFrom(d, k, best) ==
    IF k > Len(d) THEN d[best][1]
    ELSE LastMinKeyFrom(d, k + 1, IF d[k][2][1] <= d[best][2][1] THEN k ELSE best)

PyMinKeyLast(d) == LastMinKeyFrom(d, 2, 1)

RECURSIVE MinKeyFrom(_, _, _)
MinKeyFrom(d, k, best) ==
    IF k > Len(d) THEN d[best][1]
    ELSE MinKeyFrom(d, k + 1, IF d[k][2][1] < d[best][2][1] THEN k ELSE best)

PyMinKey(d) == MinKeyFrom(d, 2, 1)

\* the arguments main passes to update_town_in_db, lines 198-212
nearest_name_of(results) ==
    IF capital_commutes_of(results) # <<>>
    THEN Some(PyMinKey(capital_commutes_of(results)))
    ELSE None

nearest_mins_of_budapest(results) == budapest_mins_of(results)

nearest_mins_of(results) ==
    IF capital_commutes_of(results) # <<>>
    THEN DictGet(capital_commutes_of(results),
                 PyMinKey(capital_commutes_of(results)), None)
    ELSE None


\* ------------------------------------------------------------------------
\* State
\* ------------------------------------------------------------------------
VARIABLES
    pc,                    \* position of main
    api_key,               \* API_KEY is set
    county_data,           \* county_neighbors.json
    towns,                 \* the towns table
    lead,                  \* rows with coordinates in front of the modelled rows
    all_towns,             \* get_all_towns_data(), the modelled rows of it
    capital_coords_map,
    i,                     \* the index of enumerate over the slice
    town,                  \* the town of the current iteration, or None
    town_county,
    destinations_to_check,
    response_stream,       \* the elements read from the API, or None
    commute_results,       \* None, or Some(dict) once the call returned
    budapest_mins,
    nearest_capital_mins,
    nearest_capital_name,
    towns0,                \* history: the table when the run began
    oracle_calls,          \* history: compute_route_matrix calls per town
    api_failed,            \* history: towns whose call raised
    partial_failed,        \* history: towns with a failed element in a stream
    db_writes,             \* history: update_town_in_db calls per town
    events,                \* history: the calls and the writes, in order
    answers,               \* history: what the API answered for each town
    run,                   \* 0: a single run; 1, 2: the first and second of two
    towns1,                \* the table at the end of the first of two runs
    unemployment_stats,    \* the unemployment_stats table
    coord_arg,             \* the argument of correct_coordinate
    corrected,             \* what it returned, applied once and again
    last_op,               \* the script function that ran last on the database
    op_args,               \* its arguments
    inserted_count,        \* upsert_town_names: the counters it reports
    skipped_count

vars ==
    <<pc, api_key, county_data, towns, lead, all_towns, capital_coords_map, i,
      town, town_county, destinations_to_check, response_stream,
      commute_results, budapest_mins, nearest_capital_mins,
      nearest_capital_name, towns0, oracle_calls,
      api_failed, partial_failed, db_writes, events, answers, run, towns1,
      unemployment_stats, coord_arg, corrected,
      last_op, op_args, inserted_count, skipped_count>>

\* the state of the other scripts, which main leaves alone
scripts == <<last_op, op_args, inserted_count, skipped_count>>

\* the state of a second run and of the other tables, which the actions
\* of one run leave alone
others == <<run, towns1, unemployment_stats, coord_arg, corrected>>

inputs == <<api_key, county_data, lead, towns0, scripts, others>>

locals ==
    <<town, town_county, destinations_to_check, response_stream,
      commute_results, budapest_mins, nearest_capital_mins,
      nearest_capital_name>>

history ==
    <<oracle_calls, api_failed, partial_failed, db_writes, events, answers>>

TownNames ==
    {"Budapest", "Szekesfehervar", "Szeged", "Aba", "Algyo", "Budaors"}

Min(a, b) == IF a < b THEN a ELSE b

\* 0-based index in all_towns of the town of iteration i
AbsIndex == SliceStart + i

\* the slice all_towns[500:1000] has an element for iteration i
InSlice == AbsIndex < Min(SliceEnd, lead + Len(all_towns))

CurrentTown == all_towns[AbsIndex - lead + 1]

ClearLocals ==
    /\ town' = None
    /\ town_county' = None
    /\ destinations_to_check' = None
    /\ response_stream' = None
    /\ commute_results' = None
    /\ budapest_mins' = None
    /\ nearest_capital_mins' = None
    /\ nearest_capital_name' = None

Init ==
    /\ pc = "start"
    /\ api_key \in BOOLEAN
    /\ county_data \in CountyFiles
    /\ towns \in InitialTables
    /\ towns0 = towns
    /\ lead \in Leads
    /\ all_towns = <<>>
    /\ capital_coords_map = <<>>
    /\ i = 0
    /\ town = None
    /\ town_county = None
    /\ destinations_to_check = None
    /\ response_stream = None
    /\ commute_results = None
    /\ budapest_mins = None
    /\ nearest_capital_mins = None
    /\ nearest_capital_name = None
    /\ oracle_calls = [n \in TownNames |-> 0]
    /\ api_failed = {}
    /\ partial_failed = {}
    /\ db_writes = [n \in TownNames |-> 0]
    /\ events = <<>>
    /\ answers = [n \in TownNames |-> None]
    /\ run = 0
    /\ towns1 = None
    /\ unemployment_stats = <<>>
    /\ coord_arg = None
    /\ corrected = <<>>
    /\ last_op = "none"
    /\ op_args = None
    /\ inserted_count = 0
    /\ skipped_count = 0

\* ------------------------------------------------------------------------
\* main, lines 140-157
\* ------------------------------------------------------------------------
NoApiKey ==
    /\ pc = "start"
    /\ ~api_key
    /\ pc' = "exit"
    /\ UNCHANGED <<inputs, towns, all_towns, capital_coords_map, i, locals, history>>

\* get_capital_cities_coords raises KeyError after add_commute_columns has
\* committed
StartKeyError ==
    /\ pc = "start"
    /\ api_key
    /\ CapitalKeyMissing(county_data)
    /\ towns' = add_commute_columns(towns)
    /\ all_towns' = get_all_towns_data(towns')
    /\ pc' = "crashed"
    /\ UNCHANGED <<inputs, capital_coords_map, i, locals, history>>

Start ==
    /\ pc = "start"
    /\ api_key
    /\ ~CapitalKeyMissing(county_data)
    /\ towns' = add_commute_columns(towns)
    /\ all_towns' = get_all_towns_data(towns')
    /\ capital_coords_map' = get_capital_cities_coords(all_towns', county_data)
    /\ pc' = "loop"
    /\ UNCHANGED <<inputs, i, locals, history>>

\* ------------------------------------------------------------------------
\* The loop of main, lines 160-217
\* ------------------------------------------------------------------------
Finish ==
    /\ pc = "loop"
    /\ ~InSlice
    /\ pc' = "done"
    /\ UNCHANGED <<inputs, towns, all_towns, capital_coords_map, i, locals, history>>

\* lines 164-167: the county is not a key of the reference
SkipUnknownCounty ==
    /\ pc = "loop"
    /\ InSlice
    /\ NormalizeCounty(CurrentTown.county) \notin DOMAIN county_data
    /\ i' = i + 1
    /\ UNCHANGED <<pc, inputs, towns, all_towns, capital_coords_map, locals, history>>

\* lines 164-183: the destinations of the town
PlanTown ==
    /\ pc = "loop"
    /\ InSlice
    /\ NormalizeCounty(CurrentTown.county) \in DOMAIN county_data
    /\ town' = Some(CurrentTown)
    /\ town_county' = Some(NormalizeCounty(CurrentTown.county))
    /\ destinations_to_check' =
         Some(BuildDestinations(county_data, capital_coords_map,
                                NormalizeCounty(CurrentTown.county)))
    /\ pc' = "call"
    /\ UNCHANGED <<inputs, towns, all_towns, capital_coords_map, i,
                   response_stream, commute_results, budapest_mins,
                   nearest_capital_mins, nearest_capital_name, history>>

\* The request of the current town and what the API did with it.  In the
\* second of two runs the API answers a request it has seen as it did in
\* the first.
Request == <<town[1], destinations_to_check[1]>>

SameAnswer(outcome) ==
    (/\ run = 2
     /\ answers[town[1].name] # None
     /\ answers[town[1].name][1][1] = Request)
        => answers[town[1].name][1][2] = outcome

Answered(outcome) ==
    answers' = IF run = 1
               THEN [answers EXCEPT ![town[1].name] = Some(<<Request, outcome>>)]
               ELSE answers

\* lines 186-200 once calculate_commute_times has returned result, having
\* read stream
AfterCall(result, stream) ==
    IF result = None
    THEN /\ pc' = "loop"
         /\ i' = i + 1
         /\ ClearLocals
    ELSE /\ pc' = "update"
         /\ response_stream' = stream
         /\ commute_results' = result
         /\ budapest_mins' = budapest_mins_of(result[1])
         /\ nearest_capital_mins' = nearest_mins_of(result[1])
         /\ nearest_capital_name' = nearest_name_of(result[1])
         /\ UNCHANGED <<i, town, town_county, destinations_to_check>>

\* lines 90-91: nothing to ask, no request is made
CallNoDestinations ==
    /\ pc = "call"
    /\ destinations_to_check[1] = <<>>
    /\ AfterCall(Some(<<>>), None)
    /\ UNCHANGED <<inputs, towns, all_towns, capital_coords_map, history>>

\* lines 115-121: compute_route_matrix raises
CallFails ==
    /\ pc = "call"
    /\ destinations_to_check[1] # <<>>
    /\ oracle_calls' = [oracle_calls EXCEPT ![town[1].name] = @ + 1]
    /\ api_failed' = api_failed \cup {town[1].name}
    /\ events' = Append(events, <<"call", town[1].name>>)
    /\ SameAnswer(<<"raised">>)
    /\ Answered(<<"raised">>)
    /\ AfterCall(ApiErrorResult, None)
    /\ UNCHANGED <<inputs, towns, all_towns, capital_coords_map,
                   partial_failed, db_writes>>

\* lines 115-135: the response stream is read to its end
CallReturns ==
    /\ pc = "call"
    /\ destinations_to_check[1] # <<>>
    /\ \E stream \in Responses(Len(destinations_to_check[1])) :
        /\ SameAnswer(<<"stream", stream>>)
        /\ Answered(<<"stream", stream>>)
        /\ AfterCall(CommuteTimes(destinations_to_check[1], stream), Some(stream))
        /\ partial_failed' =
             IF \E k \in 1..Len(stream) : stream[k].code # StatusOk
             THEN partial_failed \cup {town[1].name}
             ELSE partial_failed
    /\ oracle_calls' = [oracle_calls EXCEPT ![town[1].name] = @ + 1]
    /\ events' = Append(events, <<"call", town[1].name>>)
    /\ UNCHANGED <<inputs, towns, all_towns, capital_coords_map,
                   api_failed, db_writes>>

\* line 125: the stream raises while it is read; nothing catches it
StreamRaises ==
    /\ pc = "call"
    /\ destinations_to_check[1] # <<>>
    /\ oracle_calls' = [oracle_calls EXCEPT ![town[1].name] = @ + 1]
    /\ events' = Append(events, <<"call", town[1].name>>)
    /\ SameAnswer(<<"stream raised">>)
    /\ Answered(<<"stream raised">>)
    /\ pc' = "crashed"
    /\ ClearLocals
    /\ UNCHANGED <<inputs, towns, all_towns, capital_coords_map, i,
                   api_failed, partial_failed, db_writes>>

\* lines 202-215: the write and the end of the iteration
UpdateTown ==
    /\ pc = "update"
    /\ towns' = update_town_in_db(towns, town[1].name, budapest_mins,
                                  nearest_capital_mins, nearest_capital_name)
    /\ db_writes' = [db_writes EXCEPT ![town[1].name] = @ + 1]
    /\ events' = Append(events, <<"write", town[1].name>>)
    /\ i' = i + 1
    /\ pc' = "loop"
    /\ ClearLocals
    /\ UNCHANGED <<inputs, all_towns, capital_coords_map,
                   oracle_calls, api_failed, partial_failed, answers>>

Next ==
    \/ NoApiKey
    \/ StartKeyError
    \/ Start
    \/ Finish
    \/ SkipUnknownCounty
    \/ PlanTown
    \/ CallNoDestinations
    \/ CallFails
    \/ CallReturns
    \/ StreamRaises
    \/ UpdateTown

Spec == Init /\ [][Next]_vars


\* ------------------------------------------------------------------------
\* Properties
\* ------------------------------------------------------------------------
\* main has planned a town: destinations_to_check is built
Planned == pc \in {"call", "update"}

RowOf(table, name) == table[CHOOSE k \in 1..Len(table) : table[k].name = name]

DestinationNames ==
    {destinations_to_check[1][k][1] : k \in 1..Len(destinations_to_check[1])}

\* the entries of destinations_to_check under the name
EntriesFor(name) ==
    {k \in 1..Len(destinations_to_check[1]) : destinations_to_check[1][k][1] = name}

DeclaredNeighbors ==
    IF "neighbors" \in DOMAIN county_data[town_county[1]]
    THEN county_data[town_county[1]].neighbors
    ELSE <<>>

\* C1: for every town main plans, destinations_to_check is non-empty and
\* contains the primary capital "Budapest".
C1_DestinationsContainBudapest ==
    Planned => /\ destinations_to_check[1] # <<>>
               /\ Budapest \in DestinationNames

\* C2: for every town main plans, the number of distinct destination names
\* is at most 1 + the number of neighbours declared for the town's county.
C2_AtMostOnePlusNeighbors ==
    Planned => Cardinality(DestinationNames) <= 1 + Len(DeclaredNeighbors)

\* C2 (amended): for every town main plans, the number of entries of
\* destinations_to_check, all under distinct names, is at most 2 + the
\* number of neighbours declared for the town's county.
C2_AtMostTwoPlusNeighbors ==
    Planned => /\ Cardinality(DestinationNames) <= 2 + Len(DeclaredNeighbors)
               /\ Len(destinations_to_check[1]) = Cardinality(DestinationNames)

\* a planned town whose destinations are its own capital, a neighbour's
\* capital and Budapest: 2 + the one declared neighbour
C2_Witness ==
    /\ Planned
    /\ Len(DeclaredNeighbors) = 1
    /\ Cardinality(DestinationNames) = 3

\* the results of the call, as a dict
Results == commute_results[1]

\* the entries of the results that are not the primary capital and have a
\* duration
ReachableOthers ==
    {k \in 1..Len(Results) : Results[k][1] # Budapest /\ Results[k][2] # None}

BudapestResult ==
    IF \E k \in 1..Len(Results) : Results[k][1] = Budapest
    THEN Results[CHOOSE k \in 1..Len(Results) : Results[k][1] = Budapest][2]
    ELSE None

\* C3: when the results hold a reachable non-primary destination, the row
\* main writes has commute_budapest_mins = the result for "Budapest" (None
\* if absent), commute_nearest_capital_mins = the least duration among the
\* reachable non-primary results, and nearest_capital_name = a destination
\* attaining it.
C3_NearestIsMinimum ==
    [][(pc = "update" /\ ReachableOthers # {}) =>
        LET row == RowOf(towns', town[1].name)
        IN  /\ row.commute_budapest_mins = BudapestResult
            /\ row.commute_nearest_capital_mins # None
            /\ \A k \in ReachableOthers :
                 row.commute_nearest_capital_mins[1] <= Results[k][2][1]
            /\ \E k \in ReachableOthers :
                 /\ Results[k][2] = row.commute_nearest_capital_mins
                 /\ Some(Results[k][1]) = row.nearest_capital_name]_vars

\* results {A: 2, B: 0, Budapest: 2} reduced to (2, 0, B)
C3_Witness ==
    /\ pc = "update"
    /\ Results = << <<"Szeged", Some(2)>>, <<"Szekesfehervar", Some(0)>>,
                    <<"Budapest", Some(2)>> >>
    /\ budapest_mins = Some(2)
    /\ nearest_capital_mins = Some(0)
    /\ nearest_capital_name = Some("Szekesfehervar")

\* C4: when every non-primary destination is unreachable or missing from
\* the results, main writes the row with commute_budapest_mins = the
\* primary capital's duration and the other two fields None, and goes on
\* to the next town.
C4_NoNearestStillWritten ==
    [][(pc = "update" /\ ReachableOthers = {}) =>
        LET row == RowOf(towns', town[1].name)
        IN  /\ row.commute_budapest_mins = BudapestResult
            /\ row.commute_nearest_capital_mins = None
            /\ row.nearest_capital_name = None
            /\ db_writes'[town[1].name] = db_writes[town[1].name] + 1
            /\ pc' = "loop"
            /\ i' = i + 1]_vars

\* both non-primary destinations unreachable, Budapest reached
C4_Witness ==
    /\ pc = "update"
    /\ Len(Results) = 3
    /\ \E k \in 1..Len(Results) : Results[k] = <<"Budapest", Some(2)>>
    /\ \A k \in 1..Len(Results) : Results[k][1] # Budapest => Results[k][2] = None
    /\ budapest_mins = Some(2)
    /\ nearest_capital_name = None

OwnCapital ==
    IF "capital" \in DOMAIN county_data[town_county[1]]
    THEN county_data[town_county[1]].capital
    ELSE None

\* C5: when the town's own county capital is named "Budapest", the
\* destination set has exactly one entry under that name.
C5_ExactlyOneBudapest ==
    (Planned /\ OwnCapital = Some(Budapest)) =>
        Cardinality(EntriesFor(Budapest)) = 1


\* the county's legacy name, for the county that was renamed
LegacyNameOf(key) == IF key = CsCs THEN {Csongrad} ELSE {}

\* the known aliases of a county: a legacy name, or a name with the suffix
KnownAliases(key) ==
    LegacyNameOf(key) \cup {WithSuffix(n) : n \in {key} \cup LegacyNameOf(key)}

SuffixAliases(key) == {WithSuffix(key)}

RowAtStart(name) ==
    LET row == RowOf(towns0, name)
    IN  IF CommuteColumns \subseteq DOMAIN row THEN row
        ELSE [c \in DOMAIN row \cup CommuteColumns |->
                IF c \in DOMAIN row THEN row[c] ELSE None]

\* C7: when the call for a town raises, main makes no write for the town,
\* its row keeps the values it had, and the loop goes on to the next town.
C7_ApiFailureNoWrite ==
    /\ [](\A n \in api_failed :
            db_writes[n] = 0 /\ RowOf(towns, n) = RowAtStart(n))
    /\ [][api_failed' # api_failed =>
            towns' = towns /\ pc' = "loop" /\ i' = i + 1]_vars

\* the call for Aba raised; the row keeps the values of the earlier run
C7_Witness ==
    /\ "Aba" \in api_failed
    /\ pc = "loop"
    /\ RowOf(towns, "Aba").commute_budapest_mins = Some(55)
    /\ RowOf(towns, "Aba").nearest_capital_name = Some("Szekesfehervar")

\* m is the whole number of minutes nearest to secs seconds, the even one
\* of two equally near
NearestMinute(m, secs) ==
    /\ 2 * (60 * m - secs) <= 60
    /\ 2 * (secs - 60 * m) <= 60
    /\ (2 * (60 * m - secs) = 60 \/ 2 * (secs - 60 * m) = 60) => m % 2 = 0

SentNames ==
    [k \in 1..Len(destinations_to_check[1]) |-> destinations_to_check[1][k][1]]

\* C8: when an element of an otherwise successful call reports a failure,
\* the results hold None for that destination only and the rounded
\* duration of every other element; the town is still written.
C8_PartialFailure ==
    /\ [](pc = "update" /\ response_stream # None =>
            LET stream == response_stream[1]
            IN  /\ \A k \in 1..Len(stream) :
                    LET value == DictGet(Results,
                                    SentNames[stream[k].destination_index + 1],
                                    Some(-1))
                    IN  IF stream[k].code = 0
                        THEN value # None /\ NearestMinute(value[1], stream[k].seconds)
                        ELSE value = None
                /\ Len(Results) = Len(stream))
    /\ [][pc = "update" =>
            db_writes'[town[1].name] = db_writes[town[1].name] + 1]_vars

\* one of three destinations failed, the two others have 0 and 2 minutes
C8_Witness ==
    /\ pc = "update"
    /\ response_stream # None
    /\ Len(response_stream[1]) = 3
    /\ Cardinality({k \in 1..3 : response_stream[1][k].code # 0}) = 1
    /\ Cardinality({k \in 1..Len(Results) : Results[k][2] = None}) = 1
    /\ \E k \in 1..Len(Results) : Results[k][2] = Some(0)
    /\ \E k \in 1..Len(Results) : Results[k][2] = Some(2)

\* the county string without the suffix words that follow a space
WithoutSuffix(county) ==
    IF county = <<>> THEN <<>>
    ELSE <<Head(county)>> \o SelectSeq(Tail(county), LAMBDA w : w # Suffix)

\* C9: a town whose normalised county is not a key of the county reference
\* is skipped: no call, no write, and the loop goes on to the next town.
C9_UnknownCountySkipped ==
    [][(pc = "loop" /\ InSlice
            /\ WithoutSuffix(CurrentTown.county) \notin DOMAIN county_data) =>
        /\ towns' = towns
        /\ oracle_calls' = oracle_calls
        /\ db_writes' = db_writes
        /\ pc' = "loop"
        /\ i' = i + 1]_vars

\* Szeged, county "Csongrad", was skipped and the loop is at the next town
C9_Witness ==
    /\ pc = "loop"
    /\ i >= 1
    /\ AbsIndex - lead <= Len(all_towns)
    /\ all_towns[AbsIndex - lead].name = "Szeged"
    /\ oracle_calls["Szeged"] = 0
    /\ db_writes["Szeged"] = 0

Candidates == <<town_county[1]>> \o DeclaredNeighbors

\* the capital a candidate county contributes, if it has coordinates
Contribution(county_name) ==
    IF /\ county_name \in DOMAIN county_data
       /\ "capital" \in DOMAIN county_data[county_name]
       /\ county_data[county_name].capital # None
       /\ DictHas(capital_coords_map, county_data[county_name].capital[1])
    THEN {county_data[county_name].capital[1]}
    ELSE {}

\* C10: a candidate county whose capital has no coordinates contributes no
\* destination and does not stop the planning: the destinations are the
\* capitals with coordinates of all candidates, and Budapest if it has
\* coordinates, each with its coordinates.
C10_MissingCapitalSkipped ==
    Planned =>
        /\ DestinationNames =
             UNION {Contribution(Candidates[k]) : k \in 1..Len(Candidates)}
             \cup (IF DictHas(capital_coords_map, Budapest) THEN {Budapest} ELSE {})
        /\ \A k \in 1..Len(destinations_to_check[1]) :
             destinations_to_check[1][k][2] =
                DictGet(capital_coords_map, destinations_to_check[1][k][1], None)

\* a candidate without coordinates is followed by one that contributed
C10_Witness ==
    /\ Planned
    /\ \E a, b \in 1..Len(Candidates) :
        /\ a < b
        /\ Contribution(Candidates[a]) = {}
        /\ Contribution(Candidates[b]) # {}
        /\ Contribution(Candidates[b]) \subseteq DestinationNames


\* the names that are some county's designated capital
DesignatedCapitals ==
    {n \in TownNames :
        \E c \in DOMAIN county_data :
            "capital" \in DOMAIN county_data[c] /\ county_data[c].capital = Some(n)}

\* C11: the capital coordinate map has an entry for a name exactly when the
\* name is a county's designated capital or the primary capital "Budapest"
\* and the towns table has a row of that name with coordinates.
C11_MapHasCapitalsAndBudapest ==
    pc \in {"loop", "call", "update", "done"} =>
        \A n \in TownNames :
            DictHas(capital_coords_map, n) <=>
                /\ n \in DesignatedCapitals \cup {Budapest}
                /\ \E k \in 1..Len(towns) :
                     /\ towns[k].name = n
                     /\ towns[k].latitude # None
                     /\ towns[k].longitude # None


\* ------------------------------------------------------------------------
\* The other scripts that write the towns table
\* ------------------------------------------------------------------------
\* the table has the three commute columns.  (The scripts never empty the
\* table, and every row of a table has the same columns.)
TableHasCommuteColumns(table) == Len(table) > 0 /\ HasCommuteColumns(table[1])

\* a new row gets NULL in every column the INSERT does not name
NewRow(table, row) ==
    IF TableHasCommuteColumns(table) THEN WithCommute(row, None, None, None)
    ELSE row

\* the row INSERT ... (name) creates: NULL everywhere else.  (A NULL
\* county is the county string without words.)
NameOnlyRow(name) ==
    [name |-> name, county |-> None, population |-> None,
     latitude |-> None, longitude |-> None]

HasName(table, name) == \E k \in 1..Len(table) : table[k].name = name

WithoutName(table, name) == SelectSeq(table, LAMBDA r : r.name # name)

insert_town_data_keep_existing(table, town_data) ==
    IF HasName(table, town_data.name) THEN table
    ELSE Append(table, NewRow(table, town_data))

\* scrape_towns.py insert_town_data: INSERT OR REPLACE deletes the row of
\* the same name and inserts the new one
insert_town_data(table, town_data) ==
    Append(WithoutName(table, town_data.name), NewRow(table, town_data))

\* upsert_towns_db.py upsert_town_names, lines 72-82: the loop, where
\* error_at is the iteration whose execute raises (0: none raises).  The
\* result is <<table, inserted_count, skipped_count, raised>>.
RECURSIVE UpsertLoop(_, _, _, _, _, _)
UpsertLoop(table, names, k, error_at, inserted, skipped) ==
    IF k > Len(names) THEN <<table, inserted, skipped, FALSE>>
    ELSE IF names[k] = "" THEN
        UpsertLoop(table, names, k + 1, error_at, inserted, skipped)
    ELSE IF k = error_at THEN <<table, inserted, skipped, TRUE>>
    ELSE IF HasName(table, names[k]) THEN
        UpsertLoop(table, names, k + 1, error_at, inserted, skipped + 1)
    ELSE
        UpsertLoop(Append(table, NewRow(table, NameOnlyRow(names[k]))),
                   names, k + 1, error_at, inserted + 1, skipped)

UpsertCommitted(table, result) == result[1]

\* lines 84-94: commit, or close without commit after an error
UpsertSaved(table, result) == IF result[4] THEN table ELSE result[1]

\* the result <<table, inserted_count, skipped_count>> of the call; with
\* commit_fails the commit itself raises
upsert_town_names(table, names, error_at, commit_fails) ==
    IF names = <<>> THEN <<table, 0, 0>>
    ELSE LET result == UpsertLoop(table, names, 1, error_at, 0, 0)
         IN  <<IF commit_fails THEN table ELSE UpsertSaved(table, result),
               result[2], result[3]>>

\* ------------------------------------------------------------------------
\* fix_coords.py
\* ------------------------------------------------------------------------
RECURSIVE Pow10(_)
Pow10(n) == IF n = 0 THEN 1 ELSE 10 * Pow10(n - 1)

Abs(x) == IF x < 0 THEN 0 - x ELSE x

\* the number of decimal digits of m > 0
RECURSIVE NumDigits(_)
NumDigits(m) == IF m < 10 THEN 1 ELSE 1 + NumDigits(m \div 10)

\* int(coord): the whole degrees, truncated towards zero
IntPart(h) == IF h < 0 THEN 0 - ((0 - h) \div 100) ELSE h \div 100

\* float(coord_str[:2] + '.' + coord_str[2:]) for coord_str = str(n), in
\* hundredths.  For n < 0 the first two characters are the sign and one
\* digit.  (Exact for the coordinates of the model: at most two digits
\* follow the decimal point.)
PointAfterTwo(n) ==
    IF n >= 0
    THEN (n * 100) \div Pow10(NumDigits(n) - 2)
    ELSE 0 - (((0 - n) * 100) \div Pow10(NumDigits(0 - n) - 1))

\* correct_coordinate, lines 6-29
correct_coordinate(coord) ==
    IF coord = None \/ Abs(coord[1]) < 18000 THEN coord
    ELSE Some(PointAfterTwo(IntPart(coord[1])))

\* SQL latitude > 180: never true of NULL
Above180(coord) == coord # None /\ coord[1] > 18000

NeedsFix(row) == Above180(row.latitude) \/ Above180(row.longitude)

fix_coords_latitude_only(table) ==
    [k \in 1..Len(table) |->
        IF Above180(table[k].latitude)
        THEN [table[k] EXCEPT !.latitude = correct_coordinate(@)]
        ELSE table[k]]

\* fix_coords.py main, lines 42-61
fix_coords(table) ==
    [k \in 1..Len(table) |->
        IF NeedsFix(table[k])
        THEN [table[k] EXCEPT !.latitude = correct_coordinate(@),
                              !.longitude = correct_coordinate(@)]
        ELSE table[k]]

\* ------------------------------------------------------------------------
\* The scripts run one after another on the database, in any order
\* ------------------------------------------------------------------------
RowAbaScaled ==
    BaseRow("Aba", WithSuffix(Fejer), 4, Some(471200), Some(1800))
RowAbaBothScaled ==
    BaseRow("Aba", WithSuffix(Fejer), 4, Some(471200), Some(185000))
RowAbaWest ==
    BaseRow("Aba", WithSuffix(Fejer), 4, Some(471200), Some(-47100))
RowAbaNoCoords ==
    BaseRow("Aba", WithSuffix(Fejer), 4, None, None)

\* what the scraper may pass to insert_town_data
ScrapedTowns == {RowAba, RowAbaBothScaled, RowAbaWest, RowAbaNoCoords}

\* the names upsert_town_names may read from the Excel file
UpsertNames == {"Aba", "Uj", ""}
MaxNames == 2
NameLists == UNION {[1..k -> UpsertNames] : k \in 0..MaxNames}
\* the one list used when the scripts are run in sequence
SequenceNameLists == {<<"Aba", "Uj">>}

\* the arguments the enrichment may pass to update_town_in_db
UpdateNames == {"Aba", "Algyo", "Nowhere"}
UpdateValues ==
    {<<None, None, None>>, <<Some(45), Some(20), Some("Szeged")>>}

ScriptTables ==
    {<<RowAlgyo>>, <<RowAba, RowAlgyo>>, <<RowAbaScaled>>,
     <<PriorCommute(RowAlgyo), PriorCommute(RowAba)>>}

InitScripts ==
    /\ pc = "scripts"
    /\ api_key = TRUE
    /\ county_data = FileA
    /\ towns \in ScriptTables
    /\ towns0 = towns
    /\ lead = SliceStart
    /\ all_towns = <<>>
    /\ capital_coords_map = <<>>
    /\ i = 0
    /\ town = None
    /\ town_county = None
    /\ destinations_to_check = None
    /\ response_stream = None
    /\ commute_results = None
    /\ budapest_mins = None
    /\ nearest_capital_mins = None
    /\ nearest_capital_name = None
    /\ oracle_calls = [n \in TownNames |-> 0]
    /\ api_failed = {}
    /\ partial_failed = {}
    /\ db_writes = [n \in TownNames |-> 0]
    /\ events = <<>>
    /\ answers = [n \in TownNames |-> None]
    /\ run = 0
    /\ towns1 = None
    /\ unemployment_stats = <<>>
    /\ coord_arg = None
    /\ corrected = <<>>
    /\ last_op = "none"
    /\ op_args = None
    /\ inserted_count = 0
    /\ skipped_count = 0

mainvars ==
    <<api_key, county_data, lead, towns0, all_towns, capital_coords_map, i,
      locals, history, others>>

\* scrape_towns.py main, line 226
InsertTownData ==
    /\ pc = "scripts"
    /\ \E town_data \in ScrapedTowns :
        /\ towns' = insert_town_data(towns, town_data)
        /\ op_args' = Some(town_data)
    /\ last_op' = "insert_town_data"
    /\ UNCHANGED <<pc, mainvars, inserted_count, skipped_count>>

\* upsert_towns_db.py main with the names read from the Excel file
UpsertWith(names, error_at, commit_fails) ==
    /\ pc = "scripts"
    /\ LET out == upsert_town_names(towns, names, error_at, commit_fails)
       IN  /\ towns' = out[1]
           /\ inserted_count' = out[2]
           /\ skipped_count' = out[3]
    /\ op_args' = Some(<<names, error_at, commit_fails>>)
    /\ last_op' = "upsert_town_names"
    /\ UNCHANGED <<pc, mainvars>>

\* any list of names, and a database error at any point
UpsertTownNames ==
    \E names \in NameLists, error_at \in 0..MaxNames, commit_fails \in BOOLEAN :
        /\ error_at <= Len(names)
        /\ error_at > 0 => ~commit_fails
        /\ UpsertWith(names, error_at, commit_fails)

\* a run without a database error, among the other scripts
UpsertInSequence ==
    \E names \in SequenceNameLists : UpsertWith(names, 0, FALSE)

\* fix_coords.py main
FixCoords ==
    /\ pc = "scripts"
    /\ towns' = fix_coords(towns)
    /\ last_op' = "fix_coords"
    /\ op_args' = None
    /\ UNCHANGED <<pc, mainvars, inserted_count, skipped_count>>

\* calculate_routes_to_capitals.py add_commute_columns
AddCommuteColumns ==
    /\ pc = "scripts"
    /\ towns' = add_commute_columns(towns)
    /\ last_op' = "add_commute_columns"
    /\ op_args' = None
    /\ UNCHANGED <<pc, mainvars, inserted_count, skipped_count>>

\* calculate_routes_to_capitals.py update_town_in_db, on a table that has
\* the commute columns
UpdateTownInDb ==
    /\ pc = "scripts"
    /\ TableHasCommuteColumns(towns)
    /\ \E town_name \in UpdateNames, v \in UpdateValues :
        /\ towns' = update_town_in_db(towns, town_name, v[1], v[2], v[3])
        /\ op_args' = Some(<<town_name, v[1], v[2], v[3]>>)
    /\ last_op' = "update_town_in_db"
    /\ UNCHANGED <<pc, mainvars, inserted_count, skipped_count>>

NextScripts ==
    \/ InsertTownData
    \/ UpsertInSequence
    \/ FixCoords
    \/ AddCommuteColumns
    \/ UpdateTownInDb

SpecScripts == InitScripts /\ [][NextScripts]_vars

\* upsert_town_names run repeatedly on a table
NextUpsert == UpsertTownNames \/ AddCommuteColumns

SpecUpsert == InitScripts /\ [][NextUpsert]_vars


\* C12: update_town_in_db changes only the three commute columns of the
\* row whose name equals town_name; every other column of that row and
\* every other row are unchanged, and with no row of that name the table
\* is unchanged.
C12_UpdateFrame ==
    [][last_op' = "update_town_in_db" =>
        LET town_name == op_args'[1][1]
        IN  /\ Len(towns') = Len(towns)
            /\ \A k \in 1..Len(towns) :
                IF towns[k].name = town_name
                THEN /\ DOMAIN towns'[k] = DOMAIN towns[k]
                     /\ towns'[k].commute_budapest_mins = op_args'[1][2]
                     /\ towns'[k].commute_nearest_capital_mins = op_args'[1][3]
                     /\ towns'[k].nearest_capital_name = op_args'[1][4]
                     /\ \A c \in DOMAIN towns[k] \ CommuteColumns :
                          towns'[k][c] = towns[k][c]
                ELSE towns'[k] = towns[k]]_vars

\* Aba was updated to (45, 20, Szeged) next to a row that still has no
\* commute values
C12_Witness ==
    /\ last_op = "update_town_in_db"
    /\ op_args = Some(<<"Aba", Some(45), Some(20), Some("Szeged")>>)
    /\ \E k \in 1..Len(towns) :
        /\ towns[k].name = "Aba"
        /\ towns[k].nearest_capital_name = Some("Szeged")
        /\ towns[k].latitude = Some(4700)
    /\ \E k \in 1..Len(towns) :
        /\ towns[k].name = "Algyo"
        /\ towns[k].commute_budapest_mins = None


\* The three commute columns of a row, where the table has them
CommuteOf(row) ==
    IF HasCommuteColumns(row)
    THEN Some(<<row.commute_budapest_mins, row.commute_nearest_capital_mins,
                row.nearest_capital_name>>)
    ELSE None

\* Row k of the table before the step is kept by the step as row j
KeptAs(k, j) ==
    /\ towns'[j].name = towns[k].name
    /\ (/\ CommuteOf(towns[k]) # None
        /\ CommuteOf(towns'[j]) # CommuteOf(towns[k]))
           => last_op' = "update_town_in_db"
    /\ (\/ towns'[j].latitude # towns[k].latitude
        \/ towns'[j].longitude # towns[k].longitude)
           => last_op' = "fix_coords"

\* C15: across any sequence of script runs no town row is deleted, the
\* commute columns of an existing row change only through update_town_in_db
\* and its latitude/longitude only through the coordinate fix; in
\* particular insert_town_data and upsert_town_names leave the commute
\* values of an existing town unchanged.
C15_OnlyOwnersChangeColumns ==
    [][\A k \in 1..Len(towns) : \E j \in 1..Len(towns') : KeptAs(k, j)]_vars


\* The call just made raised a database error: an execute raised at a
\* non-empty name, or the commit raised
UpsertErrored(names, error_at, commit_fails) ==
    \/ commit_fails /\ names # <<>>
    \/ error_at > 0 /\ names[error_at] # ""

\* Position k of names is the first occurrence of a name with no row yet
FirstNew(names, k) ==
    /\ names[k] # ""
    /\ \A r \in 1..Len(towns) : towns[r].name # names[k]
    /\ \A h \in 1..(k - 1) : names[h] # names[k]

\* C16: upsert_town_names inserts a row for each non-empty name that has
\* no row yet and skips each name that has one, leaving existing rows as
\* they are; inserted_count + skipped_count is the number of non-empty
\* names processed; on a database error nothing of the call is saved.
C16_UpsertInsertsOrSkips ==
    [][last_op' = "upsert_town_names" =>
        LET names == op_args'[1][1]
            NonEmpty == {k \in 1..Len(names) : names[k] # ""}
            News == {k \in NonEmpty : FirstNew(names, k)}
        IN  IF UpsertErrored(names, op_args'[1][2], op_args'[1][3])
            THEN towns' = towns
            ELSE /\ inserted_count' + skipped_count' = Cardinality(NonEmpty)
                 /\ inserted_count' = Cardinality(News)
                 /\ Len(towns') = Len(towns) + Cardinality(News)
                 /\ \A r \in 1..Len(towns) : towns'[r] = towns[r]
                 /\ \A k \in News :
                      \E j \in (Len(towns) + 1)..Len(towns') :
                          towns'[j].name = names[k]
                 /\ \A j \in (Len(towns) + 1)..Len(towns') :
                      /\ \E k \in News : names[k] = towns'[j].name
                      /\ \A c \in DOMAIN towns'[j] \ {"name"} :
                           towns'[j][c] = None]_vars

\* A call without error inserted Uj and skipped Aba, whose row kept its
\* commute values
C16_Witness ==
    /\ last_op = "upsert_town_names"
    /\ op_args = Some(<<(<<"Aba", "Uj">>), 0, FALSE>>)
    /\ inserted_count = 1
    /\ skipped_count = 1
    /\ \E k \in 1..Len(towns) :
        /\ towns[k].name = "Aba"
        /\ HasCommuteColumns(towns[k])
        /\ towns[k].commute_budapest_mins = Some(55)
    /\ \E k \in 1..Len(towns) :
        towns[k].name = "Uj" /\ towns[k].latitude = None


\* ------------------------------------------------------------------------
\* The loop and the reducer of main, continued
\* ------------------------------------------------------------------------
\* The loop has reached the town at the 0-based index idx of all_towns
Reached(idx) == SliceStart <= idx /\ idx < SliceStart + i

\* C14: in one run of main the loop reaches every town that
\* get_all_towns_data returned, and the run ends with the completion
\* message.
C14_EveryTownReached ==
    pc = "done" =>
        \A idx \in 0..(lead + Len(all_towns) - 1) : Reached(idx)

\* the positions of the plan's destination mapping, in insertion order,
\* that are not the primary capital and have a duration equal to the
\* minimum written
TiedInPlan ==
    {k \in 1..Len(SentNames) :
        /\ SentNames[k] # Budapest
        /\ DictGet(Results, SentNames[k], None) = nearest_capital_mins}

\* the same among the elements of the response stream, in arrival order
TiedInStream ==
    {p \in 1..Len(response_stream[1]) :
        LET name == SentNames[response_stream[1][p].destination_index + 1]
        IN  /\ name # Budapest
            /\ DictGet(Results, name, None) = nearest_capital_mins}

\* C18 as stated: of several non-primary destinations tied for the
\* minimum, main writes the one that comes first in the insertion order
\* of the plan's destination mapping, whatever the order of the stream.
C18_TieFirstInPlan ==
    (pc = "update" /\ nearest_capital_name # None) =>
        \E k \in TiedInPlan :
            /\ nearest_capital_name = Some(SentNames[k])
            /\ \A h \in TiedInPlan : k <= h

\* C18 amended: of several non-primary destinations tied for the minimum,
\* main writes the one whose element arrives first in the response stream.
C18_TieFirstInStream ==
    (pc = "update" /\ nearest_capital_name # None) =>
        \E p \in TiedInStream :
            /\ nearest_capital_name =
                 Some(SentNames[response_stream[1][p].destination_index + 1])
            /\ \A q \in TiedInStream : p <= q

\* two destinations tie and the stream delivers the later one of the plan
\* first
C18_Witness ==
    /\ pc = "update"
    /\ nearest_capital_name # None
    /\ Cardinality(TiedInPlan) >= 2
    /\ \E k \in TiedInPlan :
        /\ nearest_capital_name = Some(SentNames[k])
        /\ \E h \in TiedInPlan : h < k


\* the destinations of the request, lines 96-100: the coordinates of the
\* plan's destinations in order
RouteDestinations == DictValues(destinations_to_check[1])

\* the 0-based indexes of the request at which the coordinates of the
\* capital were sent
SentAt(name) ==
    {d \in 0..(Len(RouteDestinations) - 1) :
        /\ DictHas(capital_coords_map, name)
        /\ RouteDestinations[d + 1] = DictGet(capital_coords_map, name, None)}

\* the elements of the stream that report on the capital
ElementsFor(name) ==
    LET sent == SentAt(name)
    IN  {p \in 1..Len(response_stream[1]) :
            response_stream[1][p].destination_index \in sent}

\* C20: the result stored under a capital's name is the duration (or the
\* failure) the oracle reported for the destination index at which that
\* capital's coordinates were sent, for any order of the response elements.
C20_AttributedByIndex ==
    (pc = "update" /\ response_stream # None) =>
        \A name \in TownNames :
            LET elements == ElementsFor(name)
                value == DictGet(Results, name, Some(-1))
            IN  IF elements = {} THEN ~DictHas(Results, name)
                ELSE \A p \in elements :
                        LET element == response_stream[1][p]
                        IN  IF element.code = StatusOk
                            THEN /\ value # None
                                 /\ NearestMinute(value[1], element.seconds)
                            ELSE value = None

\* the stream delivers the elements out of request order, with different
\* durations, and the result of Budapest is the one reported for its index
C20_Witness ==
    /\ pc = "update"
    /\ response_stream # None
    /\ Len(response_stream[1]) = 3
    /\ response_stream[1][1].destination_index = 2
    /\ response_stream[1][1].code = StatusOk
    /\ response_stream[1][1].seconds = 90
    /\ response_stream[1][3].destination_index = 0
    /\ response_stream[1][3].code = StatusOk
    /\ response_stream[1][3].seconds = 30
    /\ SentAt(Budapest) = {2}
    /\ DictGet(Results, Budapest, None) = Some(2)


\* C19: towns are processed one after another: at most one oracle call is
\* made per town, the write of a town comes after that town's call, and no
\* call or write of another town lies between the two.
C19_OneTownAtATime ==
    /\ \A a, b \in 1..Len(events) :
        (a < b /\ events[a][2] = events[b][2]) =>
            events[a][1] = "call" /\ events[b][1] = "write"
    /\ \A a, b, c \in 1..Len(events) :
        (a < b /\ b < c /\ events[a][2] = events[c][2]) =>
            events[b][2] = events[a][2]

\* two towns were called and written in turn
C19_Witness ==
    /\ Len(events) = 4
    /\ events[1][1] = "call" /\ events[2] = <<"write", events[1][2]>>
    /\ events[3][1] = "call" /\ events[4] = <<"write", events[3][2]>>
    /\ events[1][2] # events[3][2]


\* ------------------------------------------------------------------------
\* Two runs of main over the same table and county reference
\* ------------------------------------------------------------------------
RerunTables ==
    {<<RowBudapest, RowSzfv, RowSzeged, RowAlgyo>>,
     <<RowSzfv, RowSzeged, PriorCommute(RowAba), PriorCommute(RowAlgyo)>>,
     <<RowSzfv, RowAba>>,
     <<RowSzfv, RowSzegedNoCoords, RowBudaors>>}

InitRerun ==
    /\ pc = "start"
    /\ api_key \in BOOLEAN
    /\ county_data \in CountyFiles
    /\ towns \in RerunTables
    /\ towns0 = towns
    /\ lead \in Leads
    /\ all_towns = <<>>
    /\ capital_coords_map = <<>>
    /\ i = 0
    /\ town = None
    /\ town_county = None
    /\ destinations_to_check = None
    /\ response_stream = None
    /\ commute_results = None
    /\ budapest_mins = None
    /\ nearest_capital_mins = None
    /\ nearest_capital_name = None
    /\ oracle_calls = [n \in TownNames |-> 0]
    /\ api_failed = {}
    /\ partial_failed = {}
    /\ db_writes = [n \in TownNames |-> 0]
    /\ events = <<>>
    /\ answers = [n \in TownNames |-> None]
    /\ run = 1
    /\ towns1 = None
    /\ unemployment_stats = <<>>
    /\ coord_arg = None
    /\ corrected = <<>>
    /\ last_op = "none"
    /\ op_args = None
    /\ inserted_count = 0
    /\ skipped_count = 0

Ended == pc \in {"done", "crashed", "exit"}

\* the script is started again once the first run has ended
Rerun ==
    /\ run = 1
    /\ Ended
    /\ run' = 2
    /\ towns1' = towns
    /\ pc' = "start"
    /\ all_towns' = <<>>
    /\ capital_coords_map' = <<>>
    /\ i' = 0
    /\ ClearLocals
    /\ oracle_calls' = [n \in TownNames |-> 0]
    /\ api_failed' = {}
    /\ partial_failed' = {}
    /\ db_writes' = [n \in TownNames |-> 0]
    /\ events' = <<>>
    /\ UNCHANGED <<api_key, county_data, lead, towns0, towns, answers,
                   unemployment_stats, coord_arg, corrected, scripts>>

NextRerun == Next \/ Rerun

SpecRerun == InitRerun /\ [][NextRerun]_vars

\* C13: a second run of the enrichment over the same town table and county
\* reference, with the oracle answering as in the first, leaves every town
\* row equal to what it was after the first run.
C13_SecondRunLeavesRows ==
    (run = 2 /\ Ended) => towns = towns1

\* the second run has written again a row the first run had changed
C13_Witness ==
    /\ run = 2
    /\ pc = "done"
    /\ towns = towns1
    /\ \E k \in 1..Len(towns) :
        /\ db_writes[towns[k].name] = 1
        /\ towns[k].commute_budapest_mins = Some(2)
        /\ towns[k].commute_nearest_capital_mins = Some(2)


\* ------------------------------------------------------------------------
\* process_employment_excels.py
\* ------------------------------------------------------------------------
StatRow(town_name, date, unemployed_total) ==
    [town_name |-> town_name, date |-> date,
     unemployed_total |-> unemployed_total]

\* PRIMARY KEY (town_name, date)
SameKey(r, q) == r.town_name = q.town_name /\ r.date = q.date

\* df.to_sql(..., if_exists='append') raises IntegrityError: a row of df
\* has the key of a row of the table or of another row of df
ToSqlRaises(table, df) ==
    \/ \E a, b \in 1..Len(df) : a < b /\ SameKey(df[a], df[b])
    \/ \E a \in 1..Len(df), k \in 1..Len(table) : SameKey(df[a], table[k])

save_to_db_no_delete(table, df) ==
    IF df = <<>> THEN <<table, "nothing">>
    ELSE IF ToSqlRaises(table, df) THEN <<table, "raised">>
    ELSE <<table \o df, "saved">>

\* save_to_db: the table it leaves and how it ended.  An empty (or no)
\* DataFrame returns at once; an exception of to_sql rolls the DELETE back
\* with the rest of the transaction.
save_to_db(table, df) ==
    IF df = <<>> THEN <<table, "nothing">>
    ELSE LET date_str == df[1].date
             kept == SelectSeq(table, LAMBDA r : r.date # date_str)
         IN  IF ToSqlRaises(kept, df) THEN <<table, "raised">>
             ELSE <<kept \o df, "saved">>

StatTowns == {"ABA", "ALGYO"}
StatDates == {"2024-11-01", "2024-12-01"}
StatValues == {10, 20}
MaxRows == 2

\* the DataFrames process_excel_file returns: every row has the date of
\* the file
DataFrames ==
    UNION {[1..n -> {StatRow(t, d, v) : t \in StatTowns, v \in StatValues}] :
              d \in StatDates, n \in 0..MaxRows}

\* process_employment_excels.py main, one file
SaveToDb ==
    /\ pc = "scripts"
    /\ \E df \in DataFrames :
        LET out == save_to_db(unemployment_stats, df)
        IN  /\ unemployment_stats' = out[1]
            /\ op_args' = Some(<<df, out[2]>>)
    /\ last_op' = "save_to_db"
    /\ UNCHANGED <<pc, api_key, county_data, lead, towns0, towns, all_towns,
                   capital_coords_map, i, locals, history, run, towns1,
                   coord_arg, corrected, inserted_count, skipped_count>>

NextStats == SaveToDb

\* the towns table plays no part
InitStats == InitScripts /\ towns = <<RowAlgyo>>

SpecStats == InitStats /\ [][NextStats]_vars

OfDate(table, date) == SelectSeq(table, LAMBDA r : r.date = date)

NotOfDate(table, date) == SelectSeq(table, LAMBDA r : r.date # date)

\* C17: after save_to_db has saved a month's DataFrame, the rows of
\* unemployment_stats with that date are exactly the DataFrame's rows, no
\* two rows have the same (town_name, date), the rows of other dates are
\* unchanged, and saving the same DataFrame again leaves the table
\* unchanged.
C17_SaveRerunnable ==
    [][(last_op' = "save_to_db" /\ op_args'[1][2] = "saved") =>
        LET df == op_args'[1][1]
            date_str == df[1].date
        IN  /\ OfDate(unemployment_stats', date_str) = df
            /\ \A a, b \in 1..Len(unemployment_stats') :
                 SameKey(unemployment_stats'[a], unemployment_stats'[b]) => a = b
            /\ NotOfDate(unemployment_stats', date_str) =
                 NotOfDate(unemployment_stats, date_str)
            /\ save_to_db(unemployment_stats', df) =
                 <<unemployment_stats', "saved">>]_vars

\* November was saved with two towns while December's rows are in the
\* table
C17_Witness ==
    /\ last_op = "save_to_db"
    /\ op_args # None
    /\ op_args[1][2] = "saved"
    /\ Len(op_args[1][1]) = 2
    /\ op_args[1][1][1].date = "2024-11-01"
    /\ Len(unemployment_stats) = 3
    /\ unemployment_stats[1].date = "2024-12-01"
    /\ OfDate(unemployment_stats, "2024-11-01") = op_args[1][1]


\* ------------------------------------------------------------------------
\* fix_coords.py correct_coordinate on its own
\* ------------------------------------------------------------------------
\* the largest magnitude of an argument, in hundredths of a degree
MaxCoord == 99999

\* None, and every coordinate up to that magnitude
CoordInputs == {None} \cup {Some(h) : h \in (0 - MaxCoord)..MaxCoord}

InitCoord ==
    /\ pc = "scripts"
    /\ api_key = TRUE
    /\ county_data = FileA
    /\ towns = <<RowAlgyo>>
    /\ towns0 = towns
    /\ lead = SliceStart
    /\ all_towns = <<>>
    /\ capital_coords_map = <<>>
    /\ i = 0
    /\ town = None
    /\ town_county = None
    /\ destinations_to_check = None
    /\ response_stream = None
    /\ commute_results = None
    /\ budapest_mins = None
    /\ nearest_capital_mins = None
    /\ nearest_capital_name = None
    /\ oracle_calls = [n \in TownNames |-> 0]
    /\ api_failed = {}
    /\ partial_failed = {}
    /\ db_writes = [n \in TownNames |-> 0]
    /\ events = <<>>
    /\ answers = [n \in TownNames |-> None]
    /\ run = 0
    /\ towns1 = None
    /\ unemployment_stats = <<>>
    /\ coord_arg \in CoordInputs
    /\ corrected = <<>>
    /\ last_op = "none"
    /\ op_args = None
    /\ inserted_count = 0
    /\ skipped_count = 0

\* corrected_lat = correct_coordinate(lat), line 53
CorrectCoordinate ==
    /\ pc = "scripts"
    /\ corrected = <<>>
    /\ corrected' = <<correct_coordinate(coord_arg)>>
    /\ UNCHANGED <<pc, api_key, county_data, lead, towns0, towns, all_towns,
                   capital_coords_map, i, locals, history, run, towns1,
                   unemployment_stats, coord_arg, scripts>>

\* the function applied to what it returned
CorrectAgain ==
    /\ pc = "scripts"
    /\ Len(corrected) = 1
    /\ corrected' = Append(corrected, correct_coordinate(corrected[1]))
    /\ UNCHANGED <<pc, api_key, county_data, lead, towns0, towns, all_towns,
                   capital_coords_map, i, locals, history, run, towns1,
                   unemployment_stats, coord_arg, scripts>>

NextCoord == CorrectCoordinate \/ CorrectAgain

SpecCoord == InitCoord /\ [][NextCoord]_vars

\* the argument is a number of magnitude 180 or more
Scaled == coord_arg # None /\ (coord_arg[1] >= 18000 \/ coord_arg[1] <= -18000)

\* r hundredths is the number written with the digits of the whole number
\* n >= 100 and the decimal point after the first two of them
PointAfterTwoDigits(n, r) ==
    \E d \in 3..7 :
        /\ Pow10(d - 1) <= n
        /\ n < Pow10(d)
        /\ r * Pow10(d - 2) = n * 100

\* None and a value of magnitude below 180 are returned unchanged
C21_SmallUnchanged ==
    (Len(corrected) >= 1 /\ ~Scaled) => corrected[1] = coord_arg

\* a scaled value is returned with the decimal point after the first two
\* digits of its whole part, and with its sign
C21_ScaledPointAfterTwo ==
    (Len(corrected) >= 1 /\ Scaled) =>
        /\ corrected[1] # None
        /\ IF coord_arg[1] > 0
           THEN PointAfterTwoDigits(coord_arg[1] \div 100, corrected[1][1])
           ELSE PointAfterTwoDigits((0 - coord_arg[1]) \div 100,
                                    0 - corrected[1][1])

\* correct_coordinate(correct_coordinate(x)) = correct_coordinate(x)
C21_Idempotent ==
    Len(corrected) = 2 => corrected[2] = corrected[1]

\* C21: correct_coordinate returns None and any value of magnitude below
\* 180 unchanged, maps a scaled value to the number with the decimal point
\* after its first two digits, and is idempotent.
C21_CorrectCoordinate ==
    /\ C21_SmallUnchanged
    /\ C21_ScaledPointAfterTwo
    /\ C21_Idempotent


\* ------------------------------------------------------------------------
\* Any number of runs of main, the API free to answer anew in each
\* ------------------------------------------------------------------------
\* tables fresh from the scraper: no commute column, or NULL in all three
FreshTables ==
    {<<RowBudapest, RowSzfv, RowSzeged, RowAlgyo>>,
     <<RowSzfv, RowSzegedNoCoords, RowBudaors>>,
     <<WithCommute(RowSzfv, None, None, None),
       WithCommute(RowAba, None, None, None)>>}

InitRuns ==
    /\ pc = "start"
    /\ api_key \in BOOLEAN
    /\ county_data \in CountyFiles
    /\ towns \in FreshTables
    /\ towns0 = towns
    /\ lead \in Leads
    /\ all_towns = <<>>
    /\ capital_coords_map = <<>>
    /\ i = 0
    /\ town = None
    /\ town_county = None
    /\ destinations_to_check = None
    /\ response_stream = None
    /\ commute_results = None
    /\ budapest_mins = None
    /\ nearest_capital_mins = None
    /\ nearest_capital_name = None
    /\ oracle_calls = [n \in TownNames |-> 0]
    /\ api_failed = {}
    /\ partial_failed = {}
    /\ db_writes = [n \in TownNames |-> 0]
    /\ events = <<>>
    /\ answers = [n \in TownNames |-> None]
    /\ run = 0
    /\ towns1 = None
    /\ unemployment_stats = <<>>
    /\ coord_arg = None
    /\ corrected = <<>>
    /\ last_op = "none"
    /\ op_args = None
    /\ inserted_count = 0
    /\ skipped_count = 0

\* the script is started once more on the table the last run left
RunAgain ==
    /\ run = 0
    /\ Ended
    /\ pc' = "start"
    /\ all_towns' = <<>>
    /\ capital_coords_map' = <<>>
    /\ i' = 0
    /\ ClearLocals
    /\ oracle_calls' = [n \in TownNames |-> 0]
    /\ api_failed' = {}
    /\ partial_failed' = {}
    /\ db_writes' = [n \in TownNames |-> 0]
    /\ events' = <<>>
    /\ UNCHANGED <<api_key, county_data, lead, towns0, towns, answers, others,
                   scripts>>

NextRuns == Next \/ RunAgain

SpecRuns == InitRuns /\ [][NextRuns]_vars

\* the capital the county reference gives the county, if any
CapitalOf(county_name) ==
    IF /\ county_name \in DOMAIN county_data
       /\ "capital" \in DOMAIN county_data[county_name]
       /\ county_data[county_name].capital # None
    THEN {county_data[county_name].capital[1]}
    ELSE {}

\* the counties the reference declares as neighbours of the county
NeighborsOf(county_name) ==
    IF /\ county_name \in DOMAIN county_data
       /\ "neighbors" \in DOMAIN county_data[county_name]
    THEN {county_data[county_name].neighbors[k] :
             k \in 1..Len(county_data[county_name].neighbors)}
    ELSE {}

\* the capitals of the row's own county and of its declared neighbours
NearbyCapitals(row) ==
    UNION {CapitalOf(c) :
              c \in {WithoutSuffix(row.county)}
                    \cup NeighborsOf(WithoutSuffix(row.county))}

\* C22: starting from towns whose commute fields are all null, after any
\* number of runs every town row has nearest_capital_name null exactly when
\* commute_nearest_capital_mins is null, and a nearest_capital_name that is
\* not null is not "Budapest" and is the capital of the town's own county
\* or of one of that county's declared neighbours.
C22_NearestNameInvariant ==
    \A k \in 1..Len(towns) :
        HasCommuteColumns(towns[k]) =>
            /\ (towns[k].nearest_capital_name = None)
                  <=> (towns[k].commute_nearest_capital_mins = None)
            /\ towns[k].nearest_capital_name # None =>
                  /\ towns[k].nearest_capital_name[1] # Budapest
                  /\ towns[k].nearest_capital_name[1] \in NearbyCapitals(towns[k])

\* a later run is under way on a table where Algyo has the capital of a
\* neighbour county as its nearest, and Szekesfehervar has minutes to
\* Budapest and no nearest capital
C22_Witness ==
    /\ pc = "loop"
    /\ i = 0
    /\ \E k \in 1..Len(towns) :
        /\ towns[k].name = "Algyo"
        /\ towns[k].nearest_capital_name = Some("Szekesfehervar")
        /\ towns[k].commute_nearest_capital_mins = Some(0)
    /\ \E k \in 1..Len(towns) :
        /\ towns[k].name = "Szekesfehervar"
        /\ towns[k].commute_budapest_mins = Some(2)
        /\ towns[k].nearest_capital_name = None
        /\ towns[k].commute_nearest_capital_mins = None

=============================================================================
